---- MODULE Spec2Model ----
(***************************************************************************)
(* A model of github.com/gsdocker/encoding, package xlsx (xlsx/reader.go): *)
(* Reader.Read builds one RowReader per data row of a sheet, and           *)
(* RowReader.Read decodes one row into a record through reflection,        *)
(* custom unmarshalers and regular-expression list decomposition.          *)
(*                                                                         *)
(* Cell texts are sequences of one-character strings, so that parsing and  *)
(* splitting are computed character by character.  Column names, sheet     *)
(* names and map keys are strings.                                         *)
(***************************************************************************)
EXTENDS Integers, Sequences, FiniteSets, TLC

VARIABLES file, reader, asked, rows, out

vars == <<file, reader, asked, rows, out>>

\* Largest number of cells in the data row of the decoded sheet.
MaxCells == 2

\* Largest number of rows (header included) of a sheet in SheetSpec.
MaxRows == 3

(***************************************************************************)
(* strconv.ParseInt / ParseUint with base 0, as called at lines 141, 150.  *)
(* Every modelled text denotes a value far below 2^31, so the 64-bit range *)
(* error of strconv cannot arise and is not modelled.                      *)
(***************************************************************************)
DigitVal(c) ==
    CASE c = "0" -> 0 [] c = "1" -> 1 [] c = "2" -> 2 [] c = "3" -> 3
      [] c = "4" -> 4 [] c = "5" -> 5 [] c = "6" -> 6 [] c = "7" -> 7
      [] c = "8" -> 8 [] c = "9" -> 9
      [] c \in {"a", "A"} -> 10 [] c \in {"b", "B"} -> 11
      [] c \in {"c", "C"} -> 12 [] c \in {"d", "D"} -> 13
      [] c \in {"e", "E"} -> 14 [] c \in {"f", "F"} -> 15
      [] OTHER -> 99

\* The digit loop of ParseUint: -1 stands for a syntax error.
RECURSIVE DigitLoop(_, _, _)
DigitLoop(s, base, acc) ==
    IF s = <<>> THEN acc
    ELSE IF DigitVal(Head(s)) >= base THEN -1
    ELSE DigitLoop(Tail(s), base, acc * base + DigitVal(Head(s)))

\* ParseUint(s, 0, 64): [ok, v].
ParseUint(s) ==
    IF s = <<>> THEN [ok |-> FALSE, v |-> 0]
    ELSE LET pre == IF Head(s) = "0" /\ Len(s) >= 3 THEN s[2] ELSE ""
             base == CASE pre \in {"x", "X"} -> 16
                       [] pre \in {"b", "B"} -> 2
                       [] pre \in {"o", "O"} -> 8
                       [] OTHER -> IF Head(s) = "0" THEN 8 ELSE 10
             rest == IF pre \in {"x", "X", "b", "B", "o", "O"}
                     THEN SubSeq(s, 3, Len(s))
                     ELSE IF Head(s) = "0" THEN Tail(s) ELSE s
             n    == DigitLoop(rest, base, 0)
         IN  IF n < 0 THEN [ok |-> FALSE, v |-> 0] ELSE [ok |-> TRUE, v |-> n]

\* ParseInt(s, 0, 64): an optional sign, then ParseUint.
ParseInt(s) ==
    IF s = <<>> THEN [ok |-> FALSE, v |-> 0]
    ELSE LET neg  == Head(s) = "-"
             body == IF Head(s) \in {"+", "-"} THEN Tail(s) ELSE s
             un   == ParseUint(body)
         IN  IF ~un.ok THEN [ok |-> FALSE, v |-> 0]
             ELSE [ok |-> TRUE, v |-> IF neg THEN 0 - un.v ELSE un.v]

(***************************************************************************)
(* strconv.ParseFloat(val, 64), line 160, for plain decimal texts: a sign,  *)
(* digits, at most one point.  Exponents, hexadecimal floats, infinities   *)
(* and NaN are not among the modelled texts.  The value is the pair of a   *)
(* mantissa m and a number e of decimals (m / 10^e), without trailing      *)
(* zero decimals.                                                          *)
(***************************************************************************)
RECURSIVE Normal(_, _)
Normal(m, e) ==
    IF e > 0 /\ m % 10 = 0 THEN Normal(m \div 10, e - 1) ELSE [m |-> m, e |-> e]

ParseFloat(s) ==
    LET neg    == s # <<>> /\ Head(s) = "-"
        body   == IF s # <<>> /\ Head(s) \in {"+", "-"} THEN Tail(s) ELSE s
        points == {k \in 1..Len(body) : body[k] = "."}
        digits == SelectSeq(body, LAMBDA c : c # ".")
        n      == DigitLoop(digits, 10, 0)
        e      == IF points = {} THEN 0
                  ELSE Len(body) - (CHOOSE k \in points : TRUE)
    IN  IF digits = <<>> \/ Cardinality(points) > 1 \/ n < 0
        THEN [ok |-> FALSE, v |-> Normal(0, 0)]
        ELSE [ok |-> TRUE, v |-> Normal(IF neg THEN 0 - n ELSE n, e)]

RECURSIVE Pow2(_)
Pow2(n) == IF n = 0 THEN 1 ELSE 2 * Pow2(n - 1)

\* reflect.Value.SetInt: the int64 is converted to the field's width
\* (int8(x), int16(x), ...), which keeps the low bits.  Fields of 32 bits or
\* more hold every value a modelled text denotes.
SetInt(v, bits) ==
    IF bits >= 32 THEN v
    ELSE ((v + Pow2(bits - 1)) % Pow2(bits)) - Pow2(bits - 1)

\* reflect.Value.SetUint: uint8(x), uint16(x), ...
SetUint(v, bits) == IF bits >= 32 THEN v ELSE v % Pow2(bits)

(***************************************************************************)
(* strings.Split(val, reader.Split) with a one-character separator.        *)
(***************************************************************************)
RECURSIVE SplitFrom(_, _, _)
SplitFrom(s, sep, cur) ==
    IF s = <<>> THEN <<cur>>
    ELSE IF Head(s) = sep THEN <<cur>> \o SplitFrom(Tail(s), sep, <<>>)
    ELSE SplitFrom(Tail(s), sep, Append(cur, Head(s)))

Split(s, sep) == SplitFrom(s, sep, <<>>)

(***************************************************************************)
(* regexp.Regexp.FindStringSubmatch for the anchored patterns of the       *)
(* model: capture groups of one character class each, separated by a       *)
(* literal ":".  A pattern is the sequence of its groups,                  *)
(* [class |-> "d" or "w", min |-> 0 (star) or 1 (plus)].                  *)
(***************************************************************************)
InClass(c, class) ==
    IF class = "d" THEN DigitVal(c) < 10
    ELSE c \notin {":", ",", "-", "+", "."}

GroupMatches(part, g) ==
    /\ Len(part) >= g.min
    /\ \A k \in 1..Len(part) : InClass(part[k], g.class)

\* [matched |-> FALSE] stands for the nil result; groups is matched[1:].
FindStringSubmatch(pattern, sub) ==
    LET parts == Split(sub, ":")
    IN  IF /\ Len(parts) = Len(pattern)
           /\ \A j \in 1..Len(parts) : GroupMatches(parts[j], pattern[j])
        THEN [matched |-> TRUE, groups |-> parts]
        ELSE [matched |-> FALSE, groups |-> <<>>]

\* digits+ ":" word+, anchored: the two-group pattern of a Sub list
PatIdName == <<[class |-> "d", min |-> 1], [class |-> "w", min |-> 1]>>
\* digits-star, anchored: a pattern that matches the empty string
PatStar == <<[class |-> "d", min |-> 0]>>
\* digits+ ":" word+ ":" word+ : one capture group more than Sub has fields
PatThree ==
    <<[class |-> "d", min |-> 1], [class |-> "w", min |-> 1],
      [class |-> "w", min |-> 1]>>

(***************************************************************************)
(* The record the rows are decoded into.  RowReader.Read takes any struct  *)
(* through reflection; the model decodes into one struct type T with a     *)
(* field of every kind readBuiltinType distinguishes:                      *)
(*     type Sub struct { Id int; Name string }                             *)
(*     type T struct { B bool; N int8; U uint8; F float64; S string;       *)
(*                     L []*Sub; D []Sub; M map[string]int }               *)
(***************************************************************************)
Ty(kind, bits, elemPtr) == [kind |-> kind, bits |-> bits, elemPtr |-> elemPtr]

FieldNames == {"B", "N", "U", "F", "S", "L", "D", "M"}

FieldType(name) ==
    CASE name = "B" -> Ty("Bool", 0, FALSE)
      [] name = "N" -> Ty("Int", 8, FALSE)
      [] name = "U" -> Ty("Uint", 8, FALSE)
      [] name = "F" -> Ty("Float", 64, FALSE)
      [] name = "S" -> Ty("String", 0, FALSE)
      [] name = "L" -> Ty("Slice", 0, TRUE)
      [] name = "D" -> Ty("Slice", 0, FALSE)
      [] OTHER      -> Ty("Map", 0, FALSE)

\* The fields of Sub, in declaration order (reflect.Type.Field(i)).
SubFields ==
    <<[name |-> "Id", type |-> Ty("Int", 64, FALSE)],
      [name |-> "Name", type |-> Ty("String", 0, FALSE)]>>

NilSlice == [isNil |-> TRUE, items |-> <<>>]

\* The zero value of a type (reflect.New, reflect.Zero).
ZeroValue(t) ==
    CASE t.kind = "Bool" -> FALSE
      [] t.kind \in {"Int", "Uint"} -> 0
      [] t.kind = "Float" -> [m |-> 0, e |-> 0]
      [] t.kind = "String" -> <<>>
      [] t.kind = "Slice" -> NilSlice
      [] OTHER -> "zero"

ZeroSub ==
    [n \in {SubFields[j].name : j \in 1..Len(SubFields)} |->
        ZeroValue(SubFields[CHOOSE j \in 1..Len(SubFields) : SubFields[j].name = n].type)]

ZeroRecord == [n \in FieldNames |-> ZeroValue(FieldType(n))]

TextTrue == <<"t", "r", "u", "e">>

\* reflect.Append(slice, subval) sets the new element to subval, which
\* reflect.New made a pointer: the Set inside panics unless the slice's
\* elements are pointers too.
AppendAssignable(t) == t.elemPtr

(***************************************************************************)
(* RowReader.readBuiltinType (lines 130-223).  The result is               *)
(* [fault, handled, value]: fault is a panic raised on the way             *)
(* (gserrors.Panicf or a reflect panic), handled the boolean the function  *)
(* returns, value what the field holds afterwards.                         *)
(***************************************************************************)
Fault(cur) == [fault |-> TRUE, handled |-> FALSE, value |-> cur]

Assigned(v) == [fault |-> FALSE, handled |-> TRUE, value |-> v]

\* Line 134: the texts that make a boolean true.
BoolOf(val) == val = TextTrue \/ val = <<"1">>

RECURSIVE ReadBuiltinType(_, _, _, _, _)
RECURSIVE SubmatchLoop(_, _, _, _, _)
RECURSIVE SubLoop(_, _, _, _, _, _, _)

\* Lines 203-211: the capture groups of one sub-token, into subval.
SubmatchLoop(rd, colname, groups, i, subval) ==
    IF i > Len(groups) THEN [fault |-> FALSE, subval |-> subval]
    ELSE IF groups[i] = <<>> THEN SubmatchLoop(rd, colname, groups, i + 1, subval)
    ELSE IF i > Len(SubFields) THEN [fault |-> TRUE, subval |-> subval]
    ELSE LET f == SubFields[i]
             r == ReadBuiltinType(rd, colname \o "." \o f.name, groups[i],
                                  f.type, subval[f.name])
         IN  IF r.fault THEN [fault |-> TRUE, subval |-> subval]
             ELSE SubmatchLoop(rd, colname, groups, i + 1,
                               [subval EXCEPT ![f.name] = r.value])

\* Lines 189-214: one sub-token after the other, appended to slice.
SubLoop(rd, colname, val, t, subs, k, slice) ==
    IF k > Len(subs) THEN [fault |-> FALSE, slice |-> slice]
    ELSE LET matched == FindStringSubmatch(rd.pattern[colname], subs[k])
         IN  IF ~matched.matched
             THEN IF subs[k] # <<>>
                  THEN [fault |-> TRUE, slice |-> slice]
                  ELSE SubLoop(rd, colname, val, t, subs, k + 1, slice)
             ELSE LET sv == SubmatchLoop(rd, colname, matched.groups, 1, ZeroSub)
                  IN  IF sv.fault \/ ~AppendAssignable(t)
                      THEN [fault |-> TRUE, slice |-> slice]
                      ELSE SubLoop(rd, colname, val, t, subs, k + 1,
                                   Append(slice, sv.subval))

\* A Slice case that sets the field as the sub-tokens are appended: a failure
\* leaves the sub-records made so far in it.
ReadSlicePartial(rd, colname, val, t, cur) ==
    IF colname \notin DOMAIN rd.pattern THEN Fault(cur)
    ELSE LET r == SubLoop(rd, colname, val, t, Split(val, rd.Split), 1, <<>>)
         IN  IF r.fault THEN Fault([isNil |-> FALSE, items |-> r.slice])
             ELSE Assigned([isNil |-> FALSE, items |-> r.slice])

\* Lines 171-216: the Slice case.
ReadSlice(rd, colname, val, t, cur) ==
    IF colname \notin DOMAIN rd.pattern THEN Fault(cur)
    ELSE LET r == SubLoop(rd, colname, val, t, Split(val, rd.Split), 1, <<>>)
         IN  IF r.fault THEN Fault(cur)
             ELSE Assigned([isNil |-> FALSE, items |-> r.slice])

ReadBuiltinType(rd, colname, val, t, cur) ==
    CASE t.kind = "Bool" -> Assigned(BoolOf(val))
      [] t.kind = "Int" ->
            LET p == ParseInt(val)
            IN  IF ~p.ok THEN Fault(cur) ELSE Assigned(SetInt(p.v, t.bits))
      [] t.kind = "Uint" ->
            LET p == ParseUint(val)
            IN  IF ~p.ok THEN Fault(cur) ELSE Assigned(SetUint(p.v, t.bits))
      [] t.kind = "Float" ->
            LET p == ParseFloat(val)
            IN  IF ~p.ok THEN Fault(cur) ELSE Assigned(p.v)
      [] t.kind = "String" -> Assigned(val)
      [] t.kind = "Array" -> Assigned(cur)
      [] t.kind = "Slice" -> ReadSlice(rd, colname, val, t, cur)
      [] OTHER -> [fault |-> FALSE, handled |-> FALSE, value |-> cur]

(***************************************************************************)
(* Custom unmarshalers (type UnmarshalF, line 16) are the caller's code.   *)
(* The model knows one by what it does when called: whether it writes the  *)
(* record (it stores "#" followed by the cell text in the string field S), *)
(* and whether it returns nil, returns an error or panics.                 *)
(***************************************************************************)
Unmarshaler(result, writes) == [result |-> result, writes |-> writes]

CallUnmarshaler(f, rec, text) ==
    [result |-> f.result,
     rec    |-> IF f.writes THEN [rec EXCEPT !["S"] = <<"#">> \o text] ELSE rec]

EmptyMap == [k \in {} |-> 0]

\* fmt.Sprintf("%s.%s", reader.Sheet, colname), lines 98 and 102.
Key(sheet, colname) == sheet \o "." \o colname

(***************************************************************************)
(* The values Read is called with: type is the chain of kinds from the     *)
(* value inwards (<<>> for the nil interface), nilAt the position in the   *)
(* chain of the first nil pointer, slice or map (0: none is nil).          *)
(***************************************************************************)
Target(type, nilAt) == [type |-> type, nilAt |-> nilAt]

Kind(v) == IF v.type = <<>> THEN "Invalid" ELSE Head(v.type)

\* reflect.Value.IsNil panics unless the kind can be nil.
Nilable(v) == Kind(v) \in {"Ptr", "Slice", "Map"}

IsNil(v) == v.nilAt = 1

Elem(v) == Target(Tail(v.type), IF v.nilAt > 1 THEN v.nilAt - 1 ELSE 0)

\* reflect.TypeOf(val), as ErrInvalidUnmarshal prints it (lines 34-43).
RECURSIVE TypeString(_)
TypeString(type) ==
    IF type = <<>> THEN "nil"
    ELSE CASE Head(type) = "Ptr" -> "*" \o TypeString(Tail(type))
           [] Head(type) = "Slice" -> "[]" \o TypeString(Tail(type))
           [] Head(type) = "Struct" -> "T"
           [] OTHER -> "int"

(***************************************************************************)
(* What a call of RowReader.Read leaves behind: the error returned (err,   *)
(* "nil" for none), fault when a panic left Read instead of a return,      *)
(* whether Read allocated the record in place, the record the target leads *)
(* to afterwards (hasRec, rec) and the trace of what the cell loop did.    *)
(***************************************************************************)
Result(err, errType, alloc, hasRec, rec, trace) ==
    [fault |-> FALSE, err |-> err, errType |-> errType, alloc |-> alloc,
     hasRec |-> hasRec, rec |-> rec, trace |-> trace]

Panicked(alloc, hasRec, rec, trace) ==
    [fault |-> TRUE, err |-> "nil", errType |-> "", alloc |-> alloc,
     hasRec |-> hasRec, rec |-> rec, trace |-> trace]

\* Lines 82 and 91: &ErrInvalidUnmarshal{reflect.TypeOf(val)}.
InvalidUnmarshal(val, alloc) ==
    Result("ErrInvalidUnmarshal", TypeString(val.type), alloc, FALSE, ZeroRecord, <<>>)

Event(i, ev, arg, text) == [cell |-> i, ev |-> ev, arg |-> arg, text |-> text]

\* Lines 97-103: the column name and key of a header cell, after renaming.
ResolveColumn(rd, raw) ==
    LET key == Key(rd.Sheet, raw)
    IN  IF key \in DOMAIN rd.nameMapping
        THEN [colname |-> rd.nameMapping[key],
              key |-> Key(rd.Sheet, rd.nameMapping[key])]
        ELSE [colname |-> raw, key |-> key]

\* A Read that never consults the unmarshalers.
UnmarshalerForNone(rd, key) == FALSE

\* Lines 105-106: the unmarshaler registered for a key, if any.
UnmarshalerFor(rd, key) == key \in DOMAIN rd.unmarshalers

\* Lines 107-110: the unmarshaler is called with the record and the cell text.
ReadCustom(rd, rec, i, col) ==
    LET d  == CallUnmarshaler(rd.unmarshalers[col.key], rec, rd.row[i])
        ev == <<Event(i, "unmarshaler", col.key, rd.row[i])>>
    IN  [flow |-> CASE d.result = "panic" -> "panic"
                    [] d.result = "err" -> "return"
                    [] OTHER -> "continue",
         rec |-> d.rec, events |-> ev]

\* A Read for which a column without a field is an error that ends the row.
ReadFieldStrict(rd, rec, i, col) ==
    LET lookup == Event(i, "FieldByName", col.colname, rd.row[i])
    IN  IF col.colname \notin FieldNames
        THEN [flow |-> "return", rec |-> rec, events |-> <<lookup>>]
        ELSE LET r == ReadBuiltinType(rd, col.key, rd.row[i],
                                      FieldType(col.colname), rec[col.colname])
             IN  [flow |-> IF r.fault THEN "panic" ELSE "continue",
                  rec |-> [rec EXCEPT ![col.colname] = r.value],
                  events |-> <<lookup,
                               Event(i, "readBuiltinType", col.key, rd.row[i])>>]

\* Lines 114-123: the field of the column's name, and its built-in conversion.
ReadField(rd, rec, i, col) ==
    LET lookup == Event(i, "FieldByName", col.colname, rd.row[i])
    IN  IF col.colname \notin FieldNames
        THEN [flow |-> "continue", rec |-> rec,
              events |-> <<lookup, Event(i, "warning", col.colname, rd.row[i])>>]
        ELSE LET r == ReadBuiltinType(rd, col.key, rd.row[i],
                                      FieldType(col.colname), rec[col.colname])
             IN  [flow |-> IF r.fault THEN "panic" ELSE "continue",
                  rec |-> [rec EXCEPT ![col.colname] = r.value],
                  events |-> <<lookup,
                               Event(i, "readBuiltinType", col.key, rd.row[i])>>]

\* Lines 96-125: one iteration of the cell loop.
ReadCell(rd, rec, i) ==
    IF i > Len(rd.header)
    THEN [flow |-> "panic", rec |-> rec, events |-> <<>>]
    ELSE LET col == ResolveColumn(rd, rd.header[i])
         IN  IF UnmarshalerFor(rd, col.key)
             THEN ReadCustom(rd, rec, i, col)
             ELSE ReadField(rd, rec, i, col)

RECURSIVE CellLoop(_, _, _, _, _)
CellLoop(rd, alloc, rec, trace, i) ==
    IF i > Len(rd.row) THEN Result("nil", "", alloc, TRUE, rec, trace)
    ELSE LET c == ReadCell(rd, rec, i)
         IN  CASE c.flow = "panic" -> Panicked(alloc, TRUE, c.rec, trace \o c.events)
               [] c.flow = "return" ->
                    Result("can't conv cell", "", alloc, TRUE, c.rec, trace \o c.events)
               [] OTHER -> CellLoop(rd, alloc, c.rec, trace \o c.events, i + 1)

\* Lines 79-127: the body of Read, before the deferred function runs.
ReadBody(rd, val) ==
    IF Kind(val) # "Ptr" \/ IsNil(val) THEN InvalidUnmarshal(val, FALSE)
    ELSE LET e == Elem(val)
         IN  IF ~Nilable(e) THEN Panicked(FALSE, FALSE, ZeroRecord, <<>>)
             ELSE IF IsNil(e) /\ Kind(e) # "Ptr"
             THEN Panicked(FALSE, FALSE, ZeroRecord, <<>>)
             ELSE LET alloc == IsNil(e)
                      rv    == IF alloc THEN Target(e.type, 0) ELSE val
                  IN  IF Kind(Elem(rv)) # "Struct" THEN InvalidUnmarshal(val, alloc)
                      ELSE CellLoop(rd, alloc, ZeroRecord, <<>>, 1)

\* A Read without the deferred recover: the panic leaves Read.
RecoverNothing(r) == r

\* Lines 73-77: the deferred function turns a panic into the error returned.
Recover(r) ==
    IF r.fault THEN [r EXCEPT !.fault = FALSE, !.err = "catch panic"] ELSE r

\* RowReader.Read (lines 71-128).
Read(rd, val) == Recover(ReadBody(rd, val))

\* Reader.newRowReader (lines 58-69): the id parameter is not stored, so the
\* reader's id keeps the zero value.
NewRowReader(rdr, name, header, row, id) ==
    [nameMapping |-> rdr.NameMapping, unmarshalers |-> rdr.Unmarshalers,
     pattern |-> rdr.Pattern, Sheet |-> name, header |-> header, row |-> row,
     Split |-> ",", id |-> 0]

\* Reader.Read (lines 249-278): the readers returned, <<>> for nil.
ReaderRead(rdr, f, sheetName) ==
    LET found == {k \in 1..Len(f) : f[k].Name = sheetName}
    IN  IF found = {} THEN <<>>
        ELSE LET sheet == f[CHOOSE k \in found : \A j \in found : k <= j]
             IN  IF Len(sheet.Rows) < 2 THEN <<>>
                 ELSE [i \in 1..(Len(sheet.Rows) - 1) |->
                         NewRowReader(rdr, sheetName, sheet.Rows[1],
                                      sheet.Rows[i + 1], i - 1)]

(***************************************************************************)
(* The inputs.  A reader's tables are set by the caller after NewReader    *)
(* (lines 229-231); a nil table and an empty one behave alike and are both *)
(* EmptyMap.                                                               *)
(***************************************************************************)
Patterns ==
    { EmptyMap,
      [k \in {"S1.L", "S1.D"} |-> PatIdName],
      [k \in {"S1.L", "S1.D"} |-> PatStar],
      [k \in {"S1.L"} |-> PatThree] }

UnmarshalerTables ==
    { EmptyMap }
    \cup { [k \in {"S1.S"} |-> f] :
             f \in { Unmarshaler("ok", TRUE), Unmarshaler("err", FALSE),
                     Unmarshaler("err", TRUE), Unmarshaler("panic", FALSE) } }

NameMappings == { EmptyMap, [k \in {"S1.X"} |-> "S"] }

Readers ==
    [Pattern : Patterns, Unmarshalers : UnmarshalerTables, NameMapping : NameMappings]

\* The cells of the decoded row: a header name with the text below it.
Cell(col, text) == [col |-> col, text |-> text]

CellChoices ==
    { Cell("B", TextTrue), Cell("B", <<"1">>), Cell("B", <<>>),
      Cell("N", <<"1">>), Cell("N", <<"3", "0", "0">>), Cell("N", <<"-", "1">>),
      Cell("N", <<"0", "x", "2", "A">>), Cell("N", <<>>),
      Cell("U", <<"3", "0", "0">>), Cell("U", <<"-", "1">>),
      Cell("F", <<"1", ".", "5">>), Cell("F", <<"x", "y", "z">>),
      Cell("S", TextTrue),
      Cell("L", <<"1", ":", "a", ",", "2", ":", "b">>),
      Cell("L", <<"1", ":", "a", ",", ",", "2", ":", "b">>),
      Cell("L", <<"1", ":", "a", ",", "x", "y", "z">>),
      Cell("L", <<"1", ":", "a", ":", "b">>),
      Cell("L", <<>>),
      Cell("D", <<"1", ":", "a", ",", "2", ":", "b">>), Cell("D", <<>>),
      Cell("X", <<"1">>),
      Cell("M", <<"1">>) }

CellSeqs == UNION { [1..n -> CellChoices] : n \in 0..MaxCells }

\* The values Read is called with.
Targets ==
    { Target(<<>>, 0),                          \* nil
      Target(<<"Struct">>, 0),                  \* T{}
      Target(<<"Ptr", "Struct">>, 1),           \* (*T)(nil)
      Target(<<"Ptr", "Struct">>, 0),           \* &T{}
      Target(<<"Ptr", "Ptr", "Struct">>, 2),    \* &p, p a nil *T
      Target(<<"Ptr", "Ptr", "Struct">>, 0),    \* &p, p = &T{}
      Target(<<"Ptr", "Int">>, 0),              \* &n, n an int
      Target(<<"Ptr", "Ptr", "Int">>, 2),       \* &q, q a nil *int
      Target(<<"Ptr", "Slice", "Int">>, 2) }    \* &s, s a nil []int

NoOut ==
    [called |-> FALSE, reader |-> 0, target |-> Target(<<>>, 0),
     result |-> Result("nil", "", FALSE, FALSE, ZeroRecord, <<>>)]

Sheet(name, sheetRows) == [Name |-> name, Rows |-> sheetRows]

(***************************************************************************)
(* Spec: decoding.  The file holds the sheet S1 with a header and one data *)
(* row (the header may lack the last column), Reader.Read("S1") has        *)
(* returned its row reader, and RowReader.Read is called on it.            *)
(***************************************************************************)
Init ==
    /\ reader \in Readers
    /\ \E cells \in CellSeqs, short \in 0..1 :
         LET n == IF Len(cells) >= short THEN Len(cells) - short ELSE 0
         IN  file = << Sheet("S1", << [i \in 1..n |-> cells[i].col],
                                      [i \in 1..Len(cells) |-> cells[i].text] >>) >>
    /\ asked = "S1"
    /\ rows = ReaderRead(reader, file, "S1")
    /\ out = NoOut

\* RowReader.Read(val) on the k-th reader returned.  A row reader holds no
\* state of its own, so a second call would repeat the first: each behaviour
\* makes one call.
RowRead(k, val) ==
    /\ ~out.called
    /\ out' = [called |-> TRUE, reader |-> k, target |-> val,
               result |-> Read(rows[k], val)]
    /\ UNCHANGED <<file, reader, asked, rows>>

Next == \E k \in 1..Len(rows), val \in Targets : RowRead(k, val)

Spec == Init /\ [][Next]_vars

(***************************************************************************)
(* SheetSpec: enumerating a sheet.  The file holds one or two sheets of up *)
(* to MaxRows rows, and Reader.Read is called with a sheet name.           *)
(***************************************************************************)
SheetNames == {"S1", "S2", "S3"}

HeaderRows == { <<"N">>, <<"N", "S">> }

DataRows == { << <<"1">> >>, << <<"2">>, TextTrue >> }

SheetRows ==
    { <<>> } \cup
    UNION { { <<h>> \o d : h \in HeaderRows, d \in [1..n -> DataRows] } :
              n \in 0..(MaxRows - 1) }

SheetFiles ==
    { << Sheet("S1", r) >> : r \in SheetRows } \cup
    { << Sheet("S1", r1), Sheet("S2", r2) >> : r1 \in SheetRows, r2 \in SheetRows }

SheetInit ==
    /\ reader = [Pattern |-> EmptyMap, Unmarshalers |-> EmptyMap,
                 NameMapping |-> EmptyMap]
    /\ file \in SheetFiles
    /\ asked = ""
    /\ rows = <<>>
    /\ out = NoOut

\* Reader.Read(sheetName).
SheetRead(sheetName) ==
    /\ asked' = sheetName
    /\ rows' = ReaderRead(reader, file, sheetName)
    /\ UNCHANGED <<file, reader, out>>

SheetNext == \E sheetName \in SheetNames : SheetRead(sheetName)

SheetSpec == SheetInit /\ [][SheetNext]_vars

(***************************************************************************)
(* The properties.                                                         *)
(***************************************************************************)
Res == out.result

\* The row reader the call was made on.
Rd == rows[out.reader]

PtrToStruct == Target(<<"Ptr", "Struct">>, 0)

PtrToNilPtr == Target(<<"Ptr", "Ptr", "Struct">>, 2)

\* The targets the specification calls valid.
ValidTargets == {PtrToStruct, PtrToNilPtr}

CellsOf(tr) == {tr[k].cell : k \in 1..Len(tr)}

EventsOf(tr, i) == SelectSeq(tr, LAMBDA e : e.cell = i)

\* C1: Read accepts every valid target: called with a non-nil pointer to a
\* struct, or with a non-nil pointer to a nil struct pointer, it returns nil
\* whenever the cells of the row are convertible (decoding them into a record
\* allocated in place returns nil); the target's shape causes no error.
C1_ValidTargetAccepted ==
    (out.called /\ out.target \in ValidTargets
       /\ Read(Rd, PtrToNilPtr).err = "nil")
    => (Res.err = "nil" /\ Res.hasRec)

\* C2: Read called with an invalid target returns ErrInvalidUnmarshal
\* carrying the target's type, no other error, and processes no cell.
C2_InvalidTargetError ==
    (out.called /\ out.target \notin ValidTargets)
    => /\ Res.err = "ErrInvalidUnmarshal"
       /\ Res.errType = TypeString(out.target.type)
       /\ Res.trace = <<>>

\* C3: no fault escapes Read: it ends by returning nil or an error, and a
\* fault raised before or during the cell loop comes back as an error.
C3_NoFaultEscapes ==
    out.called
    => /\ ~Res.fault
       /\ Res.err \in {"nil", "ErrInvalidUnmarshal", "catch panic", "can't conv cell"}
       /\ ReadBody(Rd, out.target).fault => Res.err = "catch panic"

\* A fault in the middle of the cell loop (here: at the second cell) came
\* back as an error.
C3_Witness ==
    /\ out.called
    /\ Res.err = "catch panic"
    /\ Res.hasRec
    /\ Res.trace # <<>>
    /\ Len(Rd.row) > Len(Rd.header)

\* The sheet Reader.Read looks at: the one of the asked name.
AskedSheets == {k \in 1..Len(file) : file[k].Name = asked}

\* C4: Reader.Read on a known sheet of n >= 2 rows returns n-1 row readers in
\* data-row order, the i-th (from 0) paired with the header row and data row
\* i+1 and of row id i; on an unknown sheet or one of fewer than 2 rows it
\* returns no row reader.
C4_RowReaders ==
    asked # ""
    => IF AskedSheets # {} /\ Len(file[CHOOSE k \in AskedSheets : TRUE].Rows) >= 2
       THEN LET sheetRows == file[CHOOSE k \in AskedSheets : TRUE].Rows
            IN  /\ Len(rows) = Len(sheetRows) - 1
                /\ \A i \in 0..(Len(sheetRows) - 2) :
                     /\ rows[i + 1].Sheet = asked
                     /\ rows[i + 1].header = sheetRows[1]
                     /\ rows[i + 1].row = sheetRows[i + 2]
                     /\ rows[i + 1].id = i
       ELSE Len(rows) = 0

\* The key the header of cell i resolves to: the sheet-qualified name, after
\* the rename table.
ResolvedKey(i) == ResolveColumn(Rd, Rd.header[i]).key

ResolvedName(i) == ResolveColumn(Rd, Rd.header[i]).colname

HasUnmarshaler(i) == ResolvedKey(i) \in DOMAIN reader.Unmarshalers

\* The cells Read got to.
Reached(i) == i \in CellsOf(Res.trace)

\* C5: a cell whose resolved key has a registered unmarshaler is handled by
\* one call of that unmarshaler with the record and the raw cell text, and by
\* nothing else: no field lookup, no built-in conversion, even though the
\* record has a field of the resolved name.  If the unmarshaler returns an
\* error Read returns an error and goes no further.  A Read that returns nil
\* has got to every cell.
C5_UnmarshalerPrecedence ==
    (out.called /\ Res.hasRec)
    => /\ Res.err = "nil" => \A i \in 1..Len(Rd.row) : Reached(i)
       /\ \A i \in 1..Len(Rd.row) :
            (i <= Len(Rd.header) /\ Reached(i) /\ HasUnmarshaler(i))
            => LET f == reader.Unmarshalers[ResolvedKey(i)]
               IN  /\ EventsOf(Res.trace, i)
                        = <<Event(i, "unmarshaler", ResolvedKey(i), Rd.row[i])>>
                   /\ f.result = "err"
                        => /\ Res.err = "can't conv cell"
                           /\ \A j \in CellsOf(Res.trace) : j <= i
                   /\ (f.writes /\ \A j \in CellsOf(Res.trace) : j <= i)
                        => Res.rec["S"] = <<"#">> \o Rd.row[i]

\* A column renamed to S, which is a field of the record, went to the
\* unmarshaler registered for S1.S, and the next cell was decoded after it.
C5_Witness ==
    /\ out.called /\ Res.hasRec /\ Res.err = "nil"
    /\ Len(Rd.row) = 2 /\ Len(Rd.header) = 2
    /\ Rd.header[1] = "X" /\ ResolvedName(1) = "S" /\ HasUnmarshaler(1)
    /\ Res.trace[1].ev = "unmarshaler"
    /\ Res.rec["N"] = 1

\* Cell i went to the field of its resolved name.
FieldCell(i) ==
    /\ i <= Len(Rd.header)
    /\ Reached(i)
    /\ ~HasUnmarshaler(i)
    /\ ResolvedName(i) \in FieldNames

\* No later cell that Read got to addresses the field of cell i.
LastFor(i) ==
    \A j \in CellsOf(Res.trace) :
        (j > i /\ j <= Len(Rd.header)) => ResolvedName(j) # ResolvedName(i)

ListCell(i) == FieldCell(i) /\ FieldType(ResolvedName(i)).kind = "Slice"

Tokens(i) == Split(Rd.row[i], ",")

NonEmpty(toks) == SelectSeq(toks, LAMBDA t : t # <<>>)

HasPattern(i) == ResolvedKey(i) \in DOMAIN reader.Pattern

PatternOf(i) == reader.Pattern[ResolvedKey(i)]

\* The sub-record the capture groups of one sub-token denote.
SubOf(groups) ==
    [n \in DOMAIN ZeroSub |->
        LET j == CHOOSE k \in 1..Len(SubFields) : SubFields[k].name = n
        IN  IF j > Len(groups) \/ groups[j] = <<>> THEN ZeroSub[n]
            ELSE IF SubFields[j].type.kind = "Int" THEN ParseInt(groups[j]).v
            ELSE groups[j]]

\* C6: a list field of sub-records (held directly or by pointer) whose
\* column has a pattern that every non-empty sub-token matches holds, after
\* Read, one sub-record per non-empty sub-token, in order, sub-field j being
\* the conversion of capture group j, or zero when the group is empty.
C6_ListDecomposition ==
    (out.called /\ Res.hasRec)
    => \A i \in 1..Len(Rd.row) :
         ( /\ ListCell(i) /\ LastFor(i) /\ HasPattern(i)
           /\ Len(PatternOf(i)) <= Len(SubFields)
           /\ \A k \in 1..Len(Tokens(i)) :
                Tokens(i)[k] # <<>>
                => FindStringSubmatch(PatternOf(i), Tokens(i)[k]).matched )
         => LET ne == NonEmpty(Tokens(i))
            IN  /\ Len(Res.rec[ResolvedName(i)].items) = Len(ne)
                /\ \A k \in 1..Len(ne) :
                     Res.rec[ResolvedName(i)].items[k]
                       = SubOf(FindStringSubmatch(PatternOf(i), ne[k]).groups)

\* C7: an empty sub-token is always skipped, whatever the pattern: it adds no
\* sub-record and causes no error, so that the list is as long as the
\* number of non-empty sub-tokens.
C7_EmptySubTokenSkipped ==
    (out.called /\ Res.hasRec)
    => \A i \in 1..Len(Rd.row) :
         /\ (Res.err = "nil" /\ ListCell(i) /\ LastFor(i))
              => Len(Res.rec[ResolvedName(i)].items) = Len(NonEmpty(Tokens(i)))
         /\ (ListCell(i) /\ HasPattern(i) /\ i = Len(Rd.row)
               /\ NonEmpty(Tokens(i)) = <<>>)
              => Res.err = "nil"

\* C10: an integer field never holds a wrapped value: when Read returns nil
\* the field holds the integer the cell text denotes.
C10_NoWrappedValue ==
    (out.called /\ Res.hasRec /\ Res.err = "nil")
    => \A i \in 1..Len(Rd.row) :
         ( /\ FieldCell(i) /\ LastFor(i)
           /\ FieldType(ResolvedName(i)).kind \in {"Int", "Uint"} )
         => Res.rec[ResolvedName(i)] = ParseInt(Rd.row[i]).v

\* The reader of the first n cells of the row.
Trunc(rd, n) == [rd EXCEPT !.row = SubSeq(rd.row, 1, n)]

\* The cell Read fails at: the first whose prefix of the row fails.
Fails(n) == Read(Trunc(Rd, n), out.target).err # "nil"

FailCell == CHOOSE n \in 1..Len(Rd.row) : Fails(n) /\ \A m \in 1..(n - 1) : ~Fails(m)

\* The record as the cells before cell i leave it.
Before(i) == Read(Trunc(Rd, i - 1), out.target).rec

\* The fields the cells of positions js address.
Addressed(js) ==
    {ResolvedName(j) : j \in {k \in js : k <= Len(Rd.header)}} \cap FieldNames

\* Cell i is an unmarshaler that writes the record before it returns.
WritingUnmarshaler(i) ==
    /\ i <= Len(Rd.header)
    /\ HasUnmarshaler(i)
    /\ reader.Unmarshalers[ResolvedKey(i)].writes

\* C8 as claimed: when Read into a fresh record fails at cell i it returns an
\* error, every field assigned by the cells before i keeps its value, the
\* field cell i addresses is left at its zero value, and no cell after i is
\* processed, so that the fields of the later cells stay at zero.
C8_AbortLeavesZero ==
    (out.called /\ Res.hasRec /\ Res.alloc /\ Res.err # "nil")
    => LET i      == FailCell
           before == Before(i)
           later  == Addressed(i..Len(Rd.row))
       IN  /\ \A j \in CellsOf(Res.trace) : j <= i
           /\ \A f \in FieldNames \ later : Res.rec[f] = before[f]
           /\ \A f \in later : Res.rec[f] = ZeroValue(FieldType(f))

\* C8 as it holds: when Read into a fresh record fails at cell i it returns
\* an error, no cell after i is processed, and nothing is rolled back or half
\* written: every field holds what the cells before i left in it, except for
\* what a failing unmarshaler wrote itself.  So a field that no cell before i
\* addresses (the field of cell i, the fields of the later cells) is at its
\* zero value, and a list field is never left partially populated.
C8_AbortNoRollback ==
    (out.called /\ Res.hasRec /\ Res.alloc /\ Res.err # "nil")
    => LET i      == FailCell
           before == Before(i)
           wrote  == WritingUnmarshaler(i)
       IN  /\ \A j \in CellsOf(Res.trace) : j <= i
           /\ Res.rec = IF wrote
                        THEN CallUnmarshaler(reader.Unmarshalers[ResolvedKey(i)],
                                             before, Rd.row[i]).rec
                        ELSE before
           /\ \A f \in FieldNames \ Addressed(1..(i - 1)) :
                (wrote /\ f = "S") \/ Res.rec[f] = ZeroValue(FieldType(f))

\* Read failed at the second cell, a list cell with a sub-token that does not
\* match after one that does: the first cell's field keeps its value and the
\* list is still nil.
C8_Witness ==
    /\ out.called /\ Res.hasRec /\ Res.alloc /\ Res.err = "catch panic"
    /\ Len(Rd.row) = 2 /\ Len(Rd.header) = 2
    /\ FailCell = 2
    /\ ResolvedName(1) = "N" /\ Res.rec["N"] = 1
    /\ ResolvedName(2) = "L" /\ HasPattern(2)
    /\ Len(Tokens(2)) = 2
    /\ FindStringSubmatch(PatternOf(2), Tokens(2)[1]).matched
    /\ Res.rec["L"] = NilSlice

\* The reader of the row without its i-th column.
Without(rd, i) ==
    [rd EXCEPT !.header = SubSeq(rd.header, 1, i - 1) \o SubSeq(rd.header, i + 1, Len(rd.header)),
               !.row = SubSeq(rd.row, 1, i - 1) \o SubSeq(rd.row, i + 1, Len(rd.row))]

\* The trace of the row without its i-th column, in the positions of the row.
Renumber(tr, i) ==
    [k \in 1..Len(tr) |-> [tr[k] EXCEPT !.cell = IF @ >= i THEN @ + 1 ELSE @]]

\* Cell i is an unmatched column: no unmarshaler for its resolved key, no
\* field of its resolved name.
Unmatched(i) ==
    /\ i <= Len(Rd.header)
    /\ ~HasUnmarshaler(i)
    /\ ResolvedName(i) \notin FieldNames

\* C9: an unmatched column is not an error: Read changes no field for its
\* cell and goes on, so that the error returned, the record and what is done
\* with the other cells are those of the row without that column.
C9_UnmatchedColumnSkipped ==
    (out.called /\ Res.hasRec)
    => \A i \in 1..Len(Rd.row) :
         Unmatched(i)
         => LET without == Read(Without(Rd, i), out.target)
            IN  /\ Res.err = without.err
                /\ Res.rec = without.rec
                /\ SelectSeq(Res.trace, LAMBDA e : e.cell # i)
                     = Renumber(without.trace, i)
                /\ Reached(i)
                     => EventsOf(Res.trace, i)
                          = <<Event(i, "FieldByName", ResolvedName(i), Rd.row[i]),
                              Event(i, "warning", ResolvedName(i), Rd.row[i])>>

\* Read skipped the unmatched column X, decoded the cell after it and
\* returned nil.
C9_Witness ==
    /\ out.called /\ Res.hasRec /\ Res.err = "nil"
    /\ Len(Rd.row) = 2 /\ Len(Rd.header) = 2
    /\ Unmatched(1) /\ Reached(1)
    /\ ResolvedName(2) = "N" /\ Res.rec["N"] = 1

====
